---- MODULE Spec2Model ----
(***************************************************************************)
(* Model of the slot search of GoogleCalendarService.findAvailableSlots    *)
(* (src/src/services/calendar.ts) and of the scheduling flow               *)
(* TaskSchedulingAgent.createAndScheduleTask (agents/taskAgent.ts) that    *)
(* calls it and books the first slot found.                                *)
(*                                                                         *)
(* Instants are JavaScript Date values counted in seconds from the model   *)
(* epoch, which is local midnight in America/Los_Angeles of day 0.  The    *)
(* milliseconds of a Date behave as its seconds do in every operation the  *)
(* code performs (setMinutes(m, 0, 0) and setHours(h, 0, 0, 0) clear both, *)
(* setMinutes(m) keeps both), so they are folded into the seconds.         *)
(***************************************************************************)
EXTENDS Integers, Sequences, FiniteSets, TLC

VARIABLES
    hourCycle,        \* how the runtime's Intl renders hour 0 under hour12:false
    sysZone,          \* time zone of the process (Date get/set methods)
    dst,              \* daylight-saving transition of the reference zone in the horizon
    authed,           \* oauth2Client.credentials.access_token is set
    calendar,         \* events of the primary Google calendar
    pc,               \* position of the request
    caller,           \* who called findAvailableSlots
    taskData,         \* argument of createAndScheduleTask
    now,              \* new Date() read by createAndScheduleTask
    durationMinutes,  \* findAvailableSlots parameter
    startDate,        \* findAvailableSlots parameter
    endDate,          \* findAvailableSlots parameter
    events,           \* result of getEvents
    currentDate,      \* the search cursor
    slotsChecked,     \* candidates examined
    availableSlots,   \* slots collected, in the order pushed
    booked,           \* createEvent calls that succeeded, in order
    error,            \* error thrown to the caller of the request
    response,         \* what the handler of the request sent to the user
    calls,            \* concurrent invocations of findAvailableSlots, each with its locals
    chatHistory,      \* TaskSchedulingAgent.chatHistory, what getHistory returns
    chats,            \* position of each POST /chat request
    boot              \* findAvailablePort at server start: its locals and its probes

vars == <<hourCycle, sysZone, dst, authed, calendar, pc, caller, taskData, now,
          durationMinutes, startDate, endDate, events, currentDate,
          slotsChecked, availableSlots, booked, error, response, calls,
          chatHistory, chats, boot>>

runtime == <<hourCycle, sysZone, dst>>

platform == <<runtime, calendar>>

search == <<durationMinutes, startDate, endDate, events, currentDate,
            slotsChecked, availableSlots>>

request == <<pc, caller, taskData, now, search, booked, error, response>>

chat == <<chatHistory, chats>>

scheduling == <<platform, request, authed, calls>>

-----------------------------------------------------------------------------
(* Units *)

Minute == 60
Hour == 3600
Day == 86400

At(d, h, m, s) == d * Day + h * Hour + m * Minute + s

(* Program constants *)

schedulingWindowStart == 5
schedulingWindowEnd == 24
maxSlotsToCheck == 500
StepMinutes == 30
DefaultDuration == 60
MinSearchDays == 7

(* Bounds of the model *)

DstDay == 2            \* the transition happens at 02:00 local of this day
MaxDurationUnits == 4  \* durations are 15 * k minutes, k in 2..MaxDurationUnits
FarDeadlineDay == 16   \* day of the deadline that lies beyond the 7-day minimum

MaxChats == 2          \* POST /chat requests of a behaviour
MaxPortAttempts == 3   \* findAvailablePort is called with 0..MaxPortAttempts attempts

NoDate == -1           \* an absent optional Date (undefined)

MaxPortNumber == 65535 \* net.createConnection throws for a port above it

-----------------------------------------------------------------------------
(* Time zones *)

DstInstant == At(DstDay, 2, 0, 0)

\* Offset of Pacific wall-clock time from the offset in force at the epoch.
DstShift(t) ==
    CASE dst = "spring" -> IF t >= DstInstant THEN Hour ELSE 0
      [] dst = "fall"   -> IF t >= DstInstant THEN 0 - Hour ELSE 0
      [] OTHER          -> 0

PacificWall(t) == t + DstShift(t)

\* Local hour 0..23 of an instant in America/Los_Angeles.
LocalHour(t) == (PacificWall(t) \div Hour) % 24

\* parseInt(d.toLocaleString('en-US', {timeZone: 'America/Los_Angeles',
\*                                      hour: 'numeric', hour12: false}))
PacificHourOf(t) ==
    IF hourCycle = "h24" /\ LocalHour(t) = 0 THEN 24 ELSE LocalHour(t)

UtcOffset == 8 * Hour

\* Wall-clock time of an instant in the process's zone.
SysWall(t) == IF sysZone = "Pacific" THEN PacificWall(t) ELSE t + UtcOffset

\* Instant of a wall-clock time of the process's zone; a time skipped or
\* repeated by a transition is read with the offset before the transition.
SysInstant(w) ==
    IF sysZone = "Pacific"
    THEN CASE dst = "spring" -> IF w < DstInstant + Hour THEN w ELSE w - Hour
           [] dst = "fall"   -> IF w < DstInstant THEN w ELSE w + Hour
           [] OTHER          -> w
    ELSE w - UtcOffset

getMinutes(t) == (SysWall(t) \div Minute) % 60
getHours(t) == (SysWall(t) \div Hour) % 24

\* d.setMinutes(m): seconds and milliseconds kept
setMinutes(t, m) ==
    SysInstant((SysWall(t) \div Hour) * Hour + m * Minute + (SysWall(t) % Minute))

\* d.setMinutes(m, 0, 0)
setMinutesZero(t, m) == SysInstant((SysWall(t) \div Hour) * Hour + m * Minute)

\* d.setHours(h, 0, 0, 0)
setHoursZero(t, h) == SysInstant((SysWall(t) \div Day) * Day + h * Hour)

-----------------------------------------------------------------------------
(* findAvailableSlots: the pure parts *)

\* Start from the provided start date, rounded to next 30-min slot
roundedMinutes(t) == ((getMinutes(t) + 29) \div 30) * 30

InitialCursor(t) ==
    IF roundedMinutes(t) >= 60
    THEN setHoursZero(t, getHours(t) + 1)
    ELSE setMinutesZero(t, roundedMinutes(t))

\* slip: the slot always ends one step after its start
slotEndOf_OneStep(cur, dur) == cur + StepMinutes * Minute

slotEndOf(cur, dur) == cur + dur * Minute

isWithinSchedulingWindow(cur, slotEnd) ==
    /\ PacificHourOf(cur) >= schedulingWindowStart
    /\ PacificHourOf(slotEnd) <= schedulingWindowEnd

\* slip: only the start of the candidate is tested against the event
hasConflict_StartOnly(cur, slotEnd, evs) ==
    \E i \in 1..Len(evs) : cur < evs[i].end /\ cur >= evs[i].start

\* slip: closed intervals, touching endpoints conflict
hasConflict_Closed(cur, slotEnd, evs) ==
    \E i \in 1..Len(evs) : cur <= evs[i].end /\ slotEnd >= evs[i].start

\* slip: only the first busy interval of the list is tested
hasConflict_FirstOnly(cur, slotEnd, evs) ==
    Len(evs) > 0 /\ cur < evs[1].end /\ slotEnd > evs[1].start

\* slip: a conflict only when the candidate lies strictly inside the event
hasConflict_StrictlyInside(cur, slotEnd, evs) ==
    \E i \in 1..Len(evs) : cur > evs[i].start /\ slotEnd < evs[i].end

hasConflict(cur, slotEnd, evs) ==
    \E i \in 1..Len(evs) : cur < evs[i].end /\ slotEnd > evs[i].start

hoursToAdd(currentPacificHour) ==
    IF currentPacificHour >= schedulingWindowEnd
    THEN (24 - currentPacificHour) + schedulingWindowStart
    ELSE schedulingWindowStart - currentPacificHour

\* slip: the minutes are set to 30 instead of advanced by 30
Stepped_Set30(cur) == setMinutes(cur, StepMinutes)

\* Move to next slot (30 min intervals)
Stepped(cur) == setMinutes(cur, getMinutes(cur) + StepMinutes)

\* the cursor at the end of one loop iteration
NextCursor(cur) ==
    LET stepped == Stepped(cur)
        currentPacificHour == PacificHourOf(stepped)
    IN  IF currentPacificHour >= schedulingWindowEnd
           \/ currentPacificHour < schedulingWindowStart
        THEN setHoursZero(stepped, getHours(stepped) + hoursToAdd(currentPacificHour))
        ELSE stepped

\* slip: the safety limit is not part of the loop condition
LoopCondition_NoCap(cur, ed, checked) == cur < ed

LoopCondition(cur, ed, checked) == cur < ed /\ checked < maxSlotsToCheck

Slot(s, e) == [start |-> s, end |-> e]

\* events.list with timeMin/timeMax: events that end after timeMin and start
\* before timeMax, in calendar order
RECURSIVE ListEvents(_, _, _)
ListEvents(cal, timeMin, timeMax) ==
    IF cal = <<>> THEN <<>>
    ELSE LET rest == ListEvents(Tail(cal), timeMin, timeMax)
         IN  IF Head(cal).end > timeMin /\ Head(cal).start < timeMax
             THEN <<Head(cal)>> \o rest
             ELSE rest

-----------------------------------------------------------------------------
(* createAndScheduleTask: the pure parts *)

durationOf(td) ==
    IF td.estimatedDuration = 0 THEN DefaultDuration ELSE td.estimatedDuration

searchStartDateOf(td, nw) ==
    IF td.preferredStartDate # NoDate /\ td.preferredStartDate > nw
    THEN td.preferredStartDate
    ELSE nw

minSearchWindowOf(td, nw) == searchStartDateOf(td, nw) + MinSearchDays * Day

\* slip: a deadline, when given, always ends the search range
searchEndDateOf_DeadlineOnly(td, nw) ==
    IF td.deadline # NoDate THEN td.deadline ELSE minSearchWindowOf(td, nw)

searchEndDateOf(td, nw) ==
    IF td.deadline # NoDate /\ td.deadline > minSearchWindowOf(td, nw)
    THEN td.deadline
    ELSE minSearchWindowOf(td, nw)

\* slip: the last slot is taken instead of the first
selectedSlotOf_Last(slots) == slots[Len(slots)]

selectedSlotOf(slots) == slots[1]

-----------------------------------------------------------------------------
(* The handlers that call createAndScheduleTask: the pure parts *)

NoResponse == [via |-> "none", status |-> 0, body |-> ""]

\* processMessage: the text appended to the assistant message
chatReplyOf(err) ==
    [ via |-> "chat",
      status |-> 200,
      body |-> IF err = "none"
               THEN "Task scheduled"
               ELSE "Sorry, I encountered an error saving the task. Please try again." ]

\* POST /tasks: res.json(result) or res.status(500).json({error})
tasksResponseOf(err) ==
    [ via |-> "http",
      status |-> IF err = "none" THEN 200 ELSE 500,
      body |-> IF err = "none" THEN "Task scheduled" ELSE "Failed to create task" ]

-----------------------------------------------------------------------------
(* Inputs *)

Durations == {15 * k : k \in 2..MaxDurationUnits}

StartDates ==
    { At(1, 8, 30, 0),     \* on the grid, inside the window
      At(1, 16, 0, 20),    \* minute on the grid, seconds not
      At(1, 22, 40, 0),
      At(1, 23, 30, 0),
      At(1, 23, 50, 0),
      At(2, 0, 0, 0),      \* local midnight
      At(2, 1, 10, 30),    \* before the window, next to the transition
      At(2, 2, 20, 0) }    \* in the hour a transition skips or repeats

EndDates ==
    { At(1, 10, 30, 0), At(2, 6, 0, 0), At(3, 9, 0, 0) }

Calendars ==
    { <<>>,
      << Slot(At(1, 9, 0, 0), At(1, 10, 0, 0)),
         Slot(At(1, 22, 0, 0), At(1, 23, 30, 0)),
         Slot(At(2, 0, 30, 0), At(2, 5, 0, 0)),
         Slot(At(2, 5, 30, 0), At(2, 5, 30, 0)) >>,
      << Slot(At(1, 9, 0, 0), At(1, 10, 0, 0)),
         Slot(At(1, 9, 0, 0), At(1, 10, 0, 0)),
         Slot(At(1, 9, 30, 0), At(1, 11, 0, 0)) >>,
      << Slot(0, At(FarDeadlineDay + 2, 0, 0, 0)) >> }

Nows == { At(1, 23, 50, 0) }

TaskDatas ==
    [ estimatedDuration : {0, 30},
      preferredStartDate : {NoDate, At(1, 6, 0, 0), At(2, 8, 30, 0)},
      deadline : {NoDate, At(2, 6, 0, 0), At(FarDeadlineDay, 0, 0, 0)} ]

NoTask == [estimatedDuration |-> 0, preferredStartDate |-> NoDate, deadline |-> NoDate]

-----------------------------------------------------------------------------
(* Concurrent invocations of findAvailableSlots: parameters and locals *)

Callers == {1, 2}

IdleCall ==
    [ pc |-> "idle", durationMinutes |-> 0, startDate |-> 0, endDate |-> 0,
      events |-> <<>>, currentDate |-> 0, slotsChecked |-> 0,
      availableSlots |-> <<>> ]

PairDurations == {30, 60}

PairRanges ==
    { [startDate |-> At(1, 8, 30, 0), endDate |-> At(1, 10, 30, 0)],
      [startDate |-> At(1, 23, 30, 0), endDate |-> At(2, 6, 0, 0)] }

\* the locals of an invocation after one iteration of its loop
IteratedCall(c) ==
    LET slotEnd == slotEndOf(c.currentDate, c.durationMinutes)
    IN  [ c EXCEPT
            !.slotsChecked = c.slotsChecked + 1,
            !.availableSlots =
                IF /\ isWithinSchedulingWindow(c.currentDate, slotEnd)
                   /\ ~hasConflict(c.currentDate, slotEnd, c.events)
                THEN Append(c.availableSlots, Slot(c.currentDate, slotEnd))
                ELSE c.availableSlots,
            !.currentDate = NextCursor(c.currentDate) ]

\* n iterations of the while loop of an invocation, or as many as its
\* condition allows
RECURSIVE RunSteps(_, _)
RunSteps(c, n) ==
    IF n = 0 THEN c
    ELSE IF n = 1
         THEN IF LoopCondition(c.currentDate, c.endDate, c.slotsChecked)
              THEN IteratedCall(c)
              ELSE c
         ELSE LET half == RunSteps(c, n \div 2)
              IN  IF LoopCondition(half.currentDate, half.endDate, half.slotsChecked)
                  THEN RunSteps(half, n - n \div 2)
                  ELSE half

\* the while loop of an invocation run to its end: it contains no await, so
\* no other request runs between two of its iterations, and its condition
\* allows at most maxSlotsToCheck iterations
RunLoop(c) == [RunSteps(c, maxSlotsToCheck) EXCEPT !.pc = "returned"]

\* tasks of the two concurrent scheduling requests
FlowTaskDatas == {td \in TaskDatas : td.deadline = NoDate}

-----------------------------------------------------------------------------
(* Chat requests and server start: parameters and locals *)

ChatIds == 1..MaxChats

IdleChat == [pc |-> "idle", task |-> FALSE]

HistoryEntry(role, id) == [role |-> role, content |-> id]

StartPorts == {3000, MaxPortNumber - 1}

\* what a connection attempt to a port of localhost ends with
ProbeOutcomes == {"ECONNREFUSED", "connect", "ETIMEDOUT"}

IdleBoot ==
    [ pc |-> "idle", startPort |-> 0, maxAttempts |-> 0, i |-> 0,
      probes |-> <<>>, port |-> 0, error |-> "none" ]

\* isPortAvailable: the value the promise resolves with
isPortAvailable(outcome) == outcome = "ECONNREFUSED"

-----------------------------------------------------------------------------
(* State machine *)

Init ==
    /\ hourCycle \in {"h23", "h24"}
    /\ sysZone \in {"UTC", "Pacific"}
    /\ dst \in {"none", "spring", "fall"}
    /\ calendar \in Calendars
    /\ authed = FALSE
    /\ pc = "idle"
    /\ caller = "none"
    /\ taskData = NoTask
    /\ now = 0
    /\ durationMinutes = 0
    /\ startDate = 0
    /\ endDate = 0
    /\ events = <<>>
    /\ currentDate = 0
    /\ slotsChecked = 0
    /\ availableSlots = <<>>
    /\ booked = <<>>
    /\ error = "none"
    /\ response = NoResponse
    /\ calls = [i \in Callers |-> IdleCall]
    /\ chatHistory = <<>>
    /\ chats = [c \in ChatIds |-> IdleChat]
    /\ boot = IdleBoot

\* GoogleCalendarService.setCredentials / loadSavedCredentials
setCredentials ==
    /\ pc = "idle"
    /\ ~authed
    /\ authed' = TRUE
    /\ UNCHANGED <<platform, chat, boot, response, calls, pc, caller, taskData, now, search, booked, error>>

\* slip: the flow does not ask the calendar whether it is authenticated
createAndScheduleTask_NoAuthCheck ==
    /\ pc = "idle"
    /\ \E td \in TaskDatas, nw \in Nows :
         /\ taskData' = td
         /\ now' = nw
         /\ caller' = "flow"
         /\ durationMinutes' = durationOf(td)
         /\ startDate' = searchStartDateOf(td, nw)
         /\ endDate' = searchEndDateOf(td, nw)
         /\ pc' = "getEvents"
    /\ UNCHANGED <<platform, chat, boot, response, calls, authed, events, currentDate, slotsChecked,
                   availableSlots, booked, error>>

\* createAndScheduleTask up to the call of findAvailableSlots
createAndScheduleTask ==
    /\ pc = "idle"
    /\ \E td \in TaskDatas, nw \in Nows :
         /\ taskData' = td
         /\ now' = nw
         /\ caller' = "flow"
         /\ IF ~authed
            THEN /\ error' = "Calendar not authenticated"
                 /\ pc' = "failed"
                 /\ UNCHANGED <<durationMinutes, startDate, endDate>>
            ELSE /\ durationMinutes' = durationOf(td)
                 /\ startDate' = searchStartDateOf(td, nw)
                 /\ endDate' = searchEndDateOf(td, nw)
                 /\ pc' = "getEvents"
                 /\ UNCHANGED error
    /\ UNCHANGED <<platform, chat, boot, response, calls, authed, events, currentDate, slotsChecked,
                   availableSlots, booked>>

\* findAvailableSlots called on the service by another caller
findAvailableSlots ==
    /\ pc = "idle"
    /\ authed
    /\ \E d \in Durations, sd \in StartDates, ed \in EndDates :
         /\ durationMinutes' = d
         /\ startDate' = sd
         /\ endDate' = ed
    /\ caller' = "direct"
    /\ pc' = "getEvents"
    /\ UNCHANGED <<platform, chat, boot, response, calls, authed, taskData, now, events, currentDate,
                   slotsChecked, availableSlots, booked, error>>

\* getEvents resolves; the cursor is set up
getEventsOk ==
    /\ pc = "getEvents"
    /\ events' = ListEvents(calendar, startDate, endDate)
    /\ availableSlots' = <<>>
    /\ currentDate' = InitialCursor(startDate)
    /\ slotsChecked' = 0
    /\ pc' = "loop"
    /\ UNCHANGED <<platform, chat, boot, response, calls, authed, caller, taskData, now, durationMinutes,
                   startDate, endDate, booked, error>>

\* slip: the failure is logged and the search goes on without events
getEventsFail_Masked ==
    /\ pc = "getEvents"
    /\ error' = "getEvents failed"
    /\ events' = <<>>
    /\ availableSlots' = <<>>
    /\ currentDate' = InitialCursor(startDate)
    /\ slotsChecked' = 0
    /\ pc' = "loop"
    /\ UNCHANGED <<platform, chat, boot, response, calls, authed, caller, taskData, now,
                   durationMinutes, startDate, endDate, booked>>

\* getEvents rejects; findAvailableSlots and createAndScheduleTask rethrow
getEventsFail ==
    /\ pc = "getEvents"
    /\ error' = "getEvents failed"
    /\ pc' = "failed"
    /\ UNCHANGED <<platform, chat, boot, response, calls, authed, caller, taskData, now, search, booked>>

\* slip: the slot pushed holds the cursor itself, not a copy of it
LoopIteration_Aliased ==
    /\ pc = "loop"
    /\ LoopCondition(currentDate, endDate, slotsChecked)
    /\ slotsChecked' = slotsChecked + 1
    /\ currentDate' = NextCursor(currentDate)
    /\ LET slotEnd == slotEndOf(currentDate, durationMinutes)
           pushed == IF /\ isWithinSchedulingWindow(currentDate, slotEnd)
                        /\ ~hasConflict(currentDate, slotEnd, events)
                     THEN Append(availableSlots, Slot(currentDate, slotEnd))
                     ELSE availableSlots
       IN  availableSlots' =
             [i \in 1..Len(pushed) |-> [pushed[i] EXCEPT !.start = currentDate']]
    /\ UNCHANGED <<platform, chat, boot, response, calls, authed, pc, caller, taskData, now, durationMinutes,
                   startDate, endDate, events, booked, error>>

\* one iteration of the while loop
LoopIteration ==
    /\ pc = "loop"
    /\ LoopCondition(currentDate, endDate, slotsChecked)
    /\ slotsChecked' = slotsChecked + 1
    /\ LET slotEnd == slotEndOf(currentDate, durationMinutes)
       IN  availableSlots' =
             IF /\ isWithinSchedulingWindow(currentDate, slotEnd)
                /\ ~hasConflict(currentDate, slotEnd, events)
             THEN Append(availableSlots, Slot(currentDate, slotEnd))
             ELSE availableSlots
    /\ currentDate' = NextCursor(currentDate)
    /\ UNCHANGED <<platform, chat, boot, response, calls, authed, pc, caller, taskData, now, durationMinutes,
                   startDate, endDate, events, booked, error>>

\* slip: reaching the safety limit does not leave the loop
LoopExit_NoCap ==
    /\ pc = "loop"
    /\ currentDate >= endDate
    /\ pc' = "returned"
    /\ UNCHANGED <<platform, chat, boot, response, calls, authed, caller, taskData, now, search, booked, error>>

\* the loop ends and findAvailableSlots returns availableSlots
LoopExit ==
    /\ pc = "loop"
    /\ ~LoopCondition(currentDate, endDate, slotsChecked)
    /\ pc' = "returned"
    /\ UNCHANGED <<platform, chat, boot, response, calls, authed, caller, taskData, now, search, booked, error>>

\* slip: the flow books as soon as one slot is found, while the search runs
SelectSlot_Early ==
    /\ pc \in {"loop", "returned"}
    /\ caller = "flow"
    /\ Len(availableSlots) > 0
    /\ pc' = "createEvent"
    /\ UNCHANGED <<platform, chat, boot, response, calls, authed, caller, taskData, now, search, booked, error>>

\* slip: the empty result is not tested
SelectSlot_NoEmptyCheck ==
    /\ pc = "returned"
    /\ caller = "flow"
    /\ pc' = "createEvent"
    /\ UNCHANGED <<platform, chat, boot, response, calls, authed, caller, taskData, now, search, booked, error>>

\* createAndScheduleTask after findAvailableSlots returned
SelectSlot ==
    /\ pc = "returned"
    /\ caller = "flow"
    /\ IF Len(availableSlots) = 0
       THEN /\ error' = "No available time slots found in the specified time range"
            /\ pc' = "failed"
       ELSE /\ pc' = "createEvent"
            /\ UNCHANGED error
    /\ UNCHANGED <<platform, chat, boot, response, calls, authed, caller, taskData, now, search, booked>>

\* createEvent resolves
createEventOk ==
    /\ pc = "createEvent"
    /\ booked' = Append(booked, Slot(selectedSlotOf(availableSlots).start,
                                     selectedSlotOf(availableSlots).end))
    /\ calendar' = Append(calendar, Slot(selectedSlotOf(availableSlots).start,
                                         selectedSlotOf(availableSlots).end))
    /\ pc' = "done"
    /\ UNCHANGED <<runtime, chat, boot, response, calls, authed, caller, taskData, now, search, error>>

\* createEvent rejects; createAndScheduleTask rethrows
createEventFail ==
    /\ pc = "createEvent"
    /\ error' = "createEvent failed"
    /\ pc' = "failed"
    /\ UNCHANGED <<platform, chat, boot, response, calls, authed, caller, taskData, now, search, booked>>

\* processMessage called createAndScheduleTask and answers the chat
processMessageReply ==
    /\ pc \in {"done", "failed"}
    /\ caller = "flow"
    /\ response' = chatReplyOf(error)
    /\ pc' = "responded"
    /\ UNCHANGED <<platform, chat, boot, calls, authed, caller, taskData, now, search, booked, error>>

\* the POST /tasks route called createAndScheduleTask and answers the request
postTasksResponse ==
    /\ pc \in {"done", "failed"}
    /\ caller = "flow"
    /\ response' = tasksResponseOf(error)
    /\ pc' = "responded"
    /\ UNCHANGED <<platform, chat, boot, calls, authed, caller, taskData, now, search, booked, error>>

\* invocation i of findAvailableSlots starts
invokeFindAvailableSlots(i) ==
    /\ authed
    /\ calls[i].pc = "idle"
    /\ \E d \in PairDurations, r \in PairRanges :
         calls' = [calls EXCEPT ![i] =
                     [ IdleCall EXCEPT !.pc = "getEvents",
                                       !.durationMinutes = d,
                                       !.startDate = r.startDate,
                                       !.endDate = r.endDate ]]
    /\ UNCHANGED <<platform, chat, boot, request, authed>>

\* getEvents of invocation i resolves
invocationGetEvents(i) ==
    /\ calls[i].pc = "getEvents"
    /\ calls' = [calls EXCEPT ![i] =
                   [ calls[i] EXCEPT
                       !.events = ListEvents(calendar, calls[i].startDate, calls[i].endDate),
                       !.availableSlots = <<>>,
                       !.currentDate = InitialCursor(calls[i].startDate),
                       !.slotsChecked = 0,
                       !.pc = "loop" ]]
    /\ UNCHANGED <<platform, chat, boot, request, authed>>

\* slip: the cursor is a field of the service, shared by the invocations
invocationLoopIteration_SharedCursor(i) ==
    /\ calls[i].pc = "loop"
    /\ LoopCondition(calls[i].currentDate, calls[i].endDate, calls[i].slotsChecked)
    /\ calls' = [j \in Callers |->
                   IF j = i
                   THEN IteratedCall(calls[i])
                   ELSE [calls[j] EXCEPT !.currentDate = NextCursor(calls[i].currentDate)]]
    /\ UNCHANGED <<platform, chat, boot, request, authed>>

\* one iteration of the loop of invocation i
invocationLoopIteration(i) ==
    /\ calls[i].pc = "loop"
    /\ LoopCondition(calls[i].currentDate, calls[i].endDate, calls[i].slotsChecked)
    /\ calls' = [calls EXCEPT ![i] = IteratedCall(calls[i])]
    /\ UNCHANGED <<platform, chat, boot, request, authed>>

\* the loop of invocation i ends and it returns its slots
invocationLoopExit(i) ==
    /\ calls[i].pc = "loop"
    /\ ~LoopCondition(calls[i].currentDate, calls[i].endDate, calls[i].slotsChecked)
    /\ calls' = [calls EXCEPT ![i] = [calls[i] EXCEPT !.pc = "returned"]]
    /\ UNCHANGED <<platform, chat, boot, request, authed>>

\* request i: createAndScheduleTask up to the call of findAvailableSlots
flowScheduleTask(i) ==
    /\ calls[i].pc = "idle"
    /\ \E td \in FlowTaskDatas, nw \in Nows :
         calls' = [calls EXCEPT ![i] =
                     IF ~authed
                     THEN [ IdleCall EXCEPT !.pc = "failed" ]
                     ELSE [ IdleCall EXCEPT
                              !.pc = "getEvents",
                              !.durationMinutes = durationOf(td),
                              !.startDate = searchStartDateOf(td, nw),
                              !.endDate = searchEndDateOf(td, nw) ]]
    /\ UNCHANGED <<platform, chat, boot, request, authed>>

\* request i: getEvents resolves and findAvailableSlots runs to its return
flowSearch(i) ==
    /\ calls[i].pc = "getEvents"
    /\ calls' = [calls EXCEPT ![i] =
                   RunLoop([ calls[i] EXCEPT
                               !.events = ListEvents(calendar, calls[i].startDate,
                                                     calls[i].endDate),
                               !.availableSlots = <<>>,
                               !.currentDate = InitialCursor(calls[i].startDate),
                               !.slotsChecked = 0,
                               !.pc = "loop" ])]
    /\ UNCHANGED <<platform, chat, boot, request, authed>>

\* request i: getEvents rejects and the request fails
flowGetEventsFail(i) ==
    /\ calls[i].pc = "getEvents"
    /\ calls' = [calls EXCEPT ![i] = [calls[i] EXCEPT !.pc = "failed"]]
    /\ UNCHANGED <<platform, chat, boot, request, authed>>

\* request i: createAndScheduleTask after findAvailableSlots returned
flowSelectSlot(i) ==
    /\ calls[i].pc = "returned"
    /\ calls' = [calls EXCEPT ![i] =
                   [calls[i] EXCEPT !.pc = IF Len(calls[i].availableSlots) = 0
                                           THEN "failed"
                                           ELSE "createEvent"]]
    /\ UNCHANGED <<platform, chat, boot, request, authed>>

\* request i: createEvent resolves, the event is in the calendar
flowCreateEventOk(i) ==
    /\ calls[i].pc = "createEvent"
    /\ LET slot == selectedSlotOf(calls[i].availableSlots)
       IN  /\ calendar' = Append(calendar, Slot(slot.start, slot.end))
           /\ booked' = Append(booked, Slot(slot.start, slot.end))
    /\ calls' = [calls EXCEPT ![i] = [calls[i] EXCEPT !.pc = "done"]]
    /\ UNCHANGED <<runtime, chat, boot, authed, pc, caller, taskData, now, search, error, response>>

\* request i: createEvent rejects and the request fails
flowCreateEventFail(i) ==
    /\ calls[i].pc = "createEvent"
    /\ calls' = [calls EXCEPT ![i] = [calls[i] EXCEPT !.pc = "failed"]]
    /\ UNCHANGED <<platform, chat, boot, request, authed>>

\* POST /chat: processMessage up to the call of the LLM
processMessage(c) ==
    /\ chats[c].pc = "idle"
    /\ chatHistory' = Append(chatHistory, HistoryEntry("user", c))
    /\ chats' = [chats EXCEPT ![c].pc = "llm"]
    /\ UNCHANGED <<scheduling, boot>>

\* the LLM answers: the answer either asks for a task to be scheduled, and
\* processMessage awaits createAndScheduleTask, or is pushed to the history
llmResolves(c) ==
    /\ chats[c].pc = "llm"
    /\ \/ /\ chats' = [chats EXCEPT ![c] = [pc |-> "scheduling", task |-> TRUE]]
          /\ UNCHANGED chatHistory
       \/ /\ chats' = [chats EXCEPT ![c].pc = "done"]
          /\ chatHistory' = Append(chatHistory, HistoryEntry("assistant", c))
    /\ UNCHANGED <<scheduling, boot>>

\* the LLM call rejects: processMessage rejects and the route answers 500
llmRejects(c) ==
    /\ chats[c].pc = "llm"
    /\ chats' = [chats EXCEPT ![c].pc = "failed"]
    /\ UNCHANGED <<scheduling, boot, chatHistory>>

\* createAndScheduleTask settled, its result or its error is in the answer,
\* and the answer is pushed to the history
schedulingSettles(c) ==
    /\ chats[c].pc = "scheduling"
    /\ chatHistory' = Append(chatHistory, HistoryEntry("assistant", c))
    /\ chats' = [chats EXCEPT ![c].pc = "done"]
    /\ UNCHANGED <<scheduling, boot>>

\* DELETE /chat/history
clearHistory ==
    /\ chatHistory' = <<>>
    /\ UNCHANGED <<scheduling, boot, chats>>

ChatNext ==
    \/ \E c \in ChatIds : processMessage(c)
    \/ \E c \in ChatIds : llmResolves(c)
    \/ \E c \in ChatIds : llmRejects(c)
    \/ \E c \in ChatIds : schedulingSettles(c)
    \/ clearHistory

\* chat requests and history clearing on the one agent of the server
ChatSpec == Init /\ [][ChatNext]_vars

\* findAvailablePort(startPort, maxAttempts) is called; without attempts
\* the loop is skipped and the error is thrown
findAvailablePort ==
    /\ boot.pc = "idle"
    /\ \E sp \in StartPorts, ma \in 0..MaxPortAttempts :
         boot' = [ IdleBoot EXCEPT
                     !.startPort = sp,
                     !.maxAttempts = ma,
                     !.pc = IF ma = 0 THEN "failed" ELSE "probing",
                     !.error = IF ma = 0 THEN "Could not find an available port"
                                         ELSE "none" ]
    /\ UNCHANGED <<scheduling, chat>>

\* one iteration of the loop: the probe of port startPort + i settles
probePort ==
    /\ boot.pc = "probing"
    /\ LET port == boot.startPort + boot.i
       IN  IF port > MaxPortNumber
           THEN \* createConnection throws, the promise of the probe rejects
                boot' = [boot EXCEPT !.pc = "failed",
                                     !.error = "ERR_SOCKET_BAD_PORT"]
           ELSE \E outcome \in ProbeOutcomes :
                  LET probed == Append(boot.probes,
                                       [port |-> port, outcome |-> outcome])
                  IN  IF isPortAvailable(outcome)
                      THEN boot' = [boot EXCEPT !.probes = probed,
                                                !.port = port,
                                                !.pc = "returned"]
                      ELSE IF boot.i + 1 < boot.maxAttempts
                           THEN boot' = [boot EXCEPT !.probes = probed,
                                                     !.i = boot.i + 1]
                           ELSE boot' = [boot EXCEPT
                                           !.probes = probed,
                                           !.i = boot.i + 1,
                                           !.pc = "failed",
                                           !.error = "Could not find an available port"]
    /\ UNCHANGED <<scheduling, chat>>

BootNext ==
    \/ findAvailablePort
    \/ probePort

\* the start of the server
BootSpec == Init /\ [][BootNext]_vars

FlowNext ==
    \/ setCredentials
    \/ \E i \in Callers : flowScheduleTask(i)
    \/ \E i \in Callers : flowSearch(i)
    \/ \E i \in Callers : flowGetEventsFail(i)
    \/ \E i \in Callers : flowSelectSlot(i)
    \/ \E i \in Callers : flowCreateEventOk(i)
    \/ \E i \in Callers : flowCreateEventFail(i)

\* two scheduling requests against the same calendar, interleaved at their
\* awaits
FlowSpec == Init /\ [][FlowNext]_vars

PairNext ==
    \/ setCredentials
    \/ \E i \in Callers : invokeFindAvailableSlots(i)
    \/ \E i \in Callers : invocationGetEvents(i)
    \/ \E i \in Callers : invocationLoopIteration(i)
    \/ \E i \in Callers : invocationLoopExit(i)

\* two invocations of findAvailableSlots, interleaved at every step
PairSpec == Init /\ [][PairNext]_vars

Next ==
    \/ setCredentials
    \/ createAndScheduleTask
    \/ findAvailableSlots
    \/ getEventsOk
    \/ getEventsFail
    \/ LoopIteration
    \/ LoopExit
    \/ SelectSlot
    \/ createEventOk
    \/ createEventFail
    \/ processMessageReply
    \/ postTasksResponse

Spec == Init /\ [][Next]_vars

\* the event loop runs every continuation that is ready
FairSpec == Spec /\ WF_vars(Next)

-----------------------------------------------------------------------------
(* Helpers of the properties *)

Overlaps(a, b) == a.start < b.end /\ a.end > b.start

SlotIndices == 1..Len(availableSlots)

\* wall-clock instant (Pacific) at which the local day of t ends
EndOfLocalDay(t) == (PacificWall(t) \div Day + 1) * Day

StartsInsideWindow(t) ==
    LocalHour(t) >= schedulingWindowStart /\ LocalHour(t) < schedulingWindowEnd

Ascending(slots) ==
    \A i \in 1..(Len(slots) - 1) : slots[i].start < slots[i + 1].start

\* the step just taken is one iteration of the search loop
Iterated == pc = "loop" /\ slotsChecked' = slotsChecked + 1

-----------------------------------------------------------------------------
(* C1..C10 *)

\* C1: no slot collected by findAvailableSlots overlaps a busy interval of
\* the busy set fetched for that search.
C1_NoOverlap ==
    \A i \in SlotIndices : \A j \in 1..Len(events) :
        ~(availableSlots[i].start < events[j].end
          /\ availableSlots[i].end > events[j].start)

\* a search returned slots on both sides of a busy interval and rejected
\* candidates in between
C1_Witness ==
    /\ pc = "returned"
    /\ slotsChecked > Len(availableSlots)
    /\ \E j \in 1..Len(events) :
         /\ events[j].start < events[j].end
         /\ \E i \in SlotIndices : availableSlots[i].end = events[j].start
         /\ \E i \in SlotIndices : availableSlots[i].start = events[j].end

\* C2: no partial slots: a returned slot that starts inside the scheduling
\* window also ends inside it, i.e. not after the end of the local day it
\* starts on.
C2_NoPartialSlots ==
    \A i \in SlotIndices :
        StartsInsideWindow(availableSlots[i].start)
            => PacificWall(availableSlots[i].end)
                   <= EndOfLocalDay(availableSlots[i].start)

\* C3: window containment by hour: every returned slot starts at a local
\* hour h with windowStart <= h < windowEnd and ends at a local hour
\* h <= windowEnd.
C3_WindowContainment ==
    \A i \in SlotIndices :
        /\ StartsInsideWindow(availableSlots[i].start)
        /\ LocalHour(availableSlots[i].end) <= schedulingWindowEnd

\* C4: every returned slot lasts exactly durationMinutes.
C4_ExactDuration ==
    \A i \in SlotIndices :
        availableSlots[i].end - availableSlots[i].start = durationMinutes * Minute

\* a slot found right after a fast-forward, of a duration other than the step
C4_Witness ==
    /\ pc = "returned"
    /\ durationMinutes # StepMinutes
    /\ \E i \in SlotIndices :
         /\ i > 1
         /\ LocalHour(availableSlots[i].start) = schedulingWindowStart
         /\ availableSlots[i].start - availableSlots[i - 1].start
                > StepMinutes * Minute

\* C5: every iteration of the loop moves the cursor strictly forward, and
\* the slots collected are in strictly ascending order of start.
C5_StrictlyAscending ==
    [][Iterated => currentDate' > currentDate /\ Ascending(availableSlots')]_vars

\* a result with two slots one plain step apart and two slots separated by
\* a fast-forward
C5_Witness ==
    /\ pc = "returned"
    /\ \E i \in SlotIndices :
         /\ i > 1
         /\ availableSlots[i].start - availableSlots[i - 1].start
                = StepMinutes * Minute
    /\ \E i \in SlotIndices :
         /\ i > 1
         /\ availableSlots[i].start - availableSlots[i - 1].start
                > StepMinutes * Minute

\* C6: at most maxSlotsToCheck candidates are examined, and a search cut
\* short by the cap returns its slots without an error.
C6_CapRespected ==
    /\ slotsChecked <= maxSlotsToCheck
    /\ (pc = "loop" /\ slotsChecked = maxSlotsToCheck => ENABLED LoopExit)
    /\ (pc = "returned" => error = "none")

\* a search that returned because of the cap, before the end of the range
C6_Witness ==
    /\ pc = "returned"
    /\ slotsChecked = maxSlotsToCheck
    /\ currentDate < endDate
    /\ Len(availableSlots) > 0

\* C7: once the busy intervals are fetched, the loop of findAvailableSlots
\* ends and findAvailableSlots returns.
C7_Termination == (pc = "loop") ~> (pc = "returned")

\* a search over the long range has returned
C7_Witness ==
    /\ pc = "returned"
    /\ endDate - startDate > MinSearchDays * Day
    /\ slotsChecked > 0

\* C8: a candidate inside the window that no busy interval overlaps, busy
\* intervals touching it at an endpoint included, is appended to the result.
C8_BoundaryTouch ==
    [][( /\ Iterated
         /\ StartsInsideWindow(currentDate)
         /\ LocalHour(currentDate + durationMinutes * Minute) <= schedulingWindowEnd
         /\ \A j \in 1..Len(events) :
               \/ events[j].end <= currentDate
               \/ events[j].start >= currentDate + durationMinutes * Minute )
        => availableSlots' =
             Append(availableSlots,
                    Slot(currentDate, currentDate + durationMinutes * Minute))]_vars

\* a returned slot starts where one busy interval ends and another returned
\* slot ends where a busy interval starts
C8_Witness ==
    /\ pc = "returned"
    /\ \E i \in SlotIndices : \E j \in 1..Len(events) :
         events[j].start < events[j].end /\ events[j].end = availableSlots[i].start
    /\ \E i \in SlotIndices : \E j \in 1..Len(events) :
         events[j].start < events[j].end /\ events[j].start = availableSlots[i].end

\* C9: the flow books the first slot of the result, and no slot of the
\* result starts before the booked one.
C9_FirstFit ==
    /\ Len(booked) <= 1
    /\ Len(booked) = 1 =>
         /\ Len(availableSlots) > 0
         /\ booked[1].start = availableSlots[1].start
         /\ booked[1].end = availableSlots[1].end
         /\ \A i \in SlotIndices : availableSlots[i].start >= booked[1].start

\* a booking made from a result of several slots
C9_Witness == pc = "done" /\ Len(booked) = 1 /\ Len(availableSlots) > 1

\* C10: an empty result is returned without an error and the flow then
\* never calls createEvent.
C10_EmptyResult ==
    /\ (pc = "returned" => error = "none")
    /\ (Len(availableSlots) = 0 => pc \notin {"createEvent", "done"} /\ booked = <<>>)

\* the flow got an empty result from a search over a fully busy range
C10_Witness ==
    /\ pc = "failed"
    /\ caller = "flow"
    /\ error = "No available time slots found in the specified time range"
    /\ slotsChecked > 0
    /\ Len(events) > 0
    /\ Len(availableSlots) = 0

-----------------------------------------------------------------------------
(* C11..C20 *)

NoSlotsError == "No available time slots found in the specified time range"

Faults == {"Calendar not authenticated", "getEvents failed", "createEvent failed"}

ResponseOf(via, err) == IF via = "chat" THEN chatReplyOf(err) ELSE tasksResponseOf(err)

\* C11: the response the user gets when the search result is empty differs
\* from the response the same handler gives for each true fault.
C11_NotFoundDistinct ==
    (pc = "responded" /\ error = NoSlotsError)
        => \A f \in Faults : response # ResponseOf(response.via, f)

\* C12: a request with a non-positive duration or with rangeStart >= rangeEnd
\* is rejected before the search: it never gets to fetch events, examine a
\* candidate or return slots.
C12_InputValidation ==
    ~( /\ pc \in {"getEvents", "loop", "returned", "createEvent", "done"}
       /\ (durationMinutes <= 0 \/ startDate >= endDate) )

\* C13: when getEvents fails, findAvailableSlots fails with that error
\* without examining a candidate, returning slots or fetching again, and
\* createAndScheduleTask fails with the same error without booking.
C13_FetchFailurePropagated ==
    error = "getEvents failed" =>
        /\ pc \in {"failed", "responded"}
        /\ slotsChecked = 0
        /\ availableSlots = <<>>
        /\ booked = <<>>

\* the flow failed with the error of getEvents
C13_Witness ==
    /\ pc = "failed"
    /\ caller = "flow"
    /\ error = "getEvents failed"
    /\ Len(calendar) > 0

\* C14: within a request the candidates are examined only after the fetch
\* completed, the enumeration does no I/O (it changes neither the fetched
\* events, the calendar, the bookings nor the response), and the booking is
\* issued only after the enumeration finished, at most once.
C14_StepsOrdered ==
    [][ /\ (slotsChecked' # slotsChecked => pc = "loop" /\ pc' = "loop")
        /\ (pc = "loop" =>
              /\ events' = events
              /\ calendar' = calendar
              /\ booked' = booked
              /\ response' = response)
        /\ (pc' = "createEvent" =>
              ~LoopCondition(currentDate', endDate', slotsChecked'))
        /\ (booked' # booked =>
              /\ pc = "createEvent"
              /\ booked = <<>>
              /\ Len(booked') = 1) ]_vars

\* a request fetched busy events, enumerated and booked
C14_Witness ==
    /\ pc = "done"
    /\ Len(events) > 0
    /\ slotsChecked > 0
    /\ Len(booked) = 1

\* C16: the first candidate examined is the least instant >= rangeStart on
\* the 30-minute grid, so the initial cursor is never before rangeStart.
C16_InitialCursorRoundedUp ==
    (pc = "loop" /\ slotsChecked = 0) =>
        /\ currentDate >= startDate
        /\ currentDate - startDate < StepMinutes * Minute
        /\ PacificWall(currentDate) % (StepMinutes * Minute) = 0

\* C17: when the cursor, after its 30-minute step, is outside the window,
\* the iteration leaves it at the next local windowStartHour:00, on every
\* date, days of a daylight-saving transition included.
C17_FastForwardTarget ==
    [][(Iterated /\ ~StartsInsideWindow(Stepped(currentDate))) =>
          /\ PacificWall(currentDate') % Day = schedulingWindowStart * Hour
          /\ currentDate' > Stepped(currentDate)
          /\ PacificWall(currentDate') - PacificWall(Stepped(currentDate)) < Day]_vars

\* C18: the fast-forward skips no valid candidate: when the cap was not
\* reached, every 30-minute grid position from the initial cursor up to
\* rangeEnd that passes the window test and the overlap test is returned.
C18_NoValidCandidateSkipped ==
    (pc = "returned" /\ slotsChecked < maxSlotsToCheck ) =>
        \A k \in 0..((endDate - InitialCursor(startDate)) \div (StepMinutes * Minute)) :
            LET g == InitialCursor(startDate) + k * StepMinutes * Minute
                gEnd == g + durationMinutes * Minute
            IN  ( /\ g < endDate
                  /\ StartsInsideWindow(g)
                  /\ LocalHour(gEnd) <= schedulingWindowEnd
                  /\ \A j \in 1..Len(events) :
                        ~(g < events[j].end /\ gEnd > events[j].start) )
                => \E i \in SlotIndices : availableSlots[i].start = g

\* C19: with the single busy interval 09:00-10:00, duration 30 and the
\* search starting at 08:30, the candidate 08:30 is returned, 09:00 and 09:30
\* are excluded and 10:00 is returned.
C19_BusyInTheMiddle ==
    ( /\ pc = "returned"
      /\ durationMinutes = 30
      /\ startDate = At(1, 8, 30, 0)
      /\ endDate >= At(1, 10, 30, 0)
      /\ events = << Slot(At(1, 9, 0, 0), At(1, 10, 0, 0)) >> )
    => /\ Len(availableSlots) >= 2
       /\ availableSlots[1] = Slot(At(1, 8, 30, 0), At(1, 9, 0, 0))
       /\ availableSlots[2] = Slot(At(1, 10, 0, 0), At(1, 10, 30, 0))

\* the search of the scenario has returned after examining 08:30 .. 10:00
C19_Witness ==
    /\ pc = "returned"
    /\ durationMinutes = 30
    /\ startDate = At(1, 8, 30, 0)
    /\ endDate = At(1, 10, 30, 0)
    /\ events = << Slot(At(1, 9, 0, 0), At(1, 10, 0, 0)) >>
    /\ slotsChecked = 4
    /\ Len(availableSlots) = 2

\* C20: with rangeStart at 23:50, duration 30 and the window ending at
\* 24:00, no slot is returned before the window opens again, and the first
\* slot returned is the one at 05:00 of the next local day when it is free.
C20_EndOfDay ==
    ( /\ pc = "returned"
      /\ startDate = At(1, 23, 50, 0)
      /\ durationMinutes = 30  )
    => \A g \in {At(2, 5, 0, 0) - Hour, At(2, 5, 0, 0), At(2, 5, 0, 0) + Hour} :
          ( /\ PacificWall(g) = At(2, 5, 0, 0)
            /\ g + 30 * Minute <= endDate
            /\ \A j \in 1..Len(events) :
                  ~(g < events[j].end /\ g + 30 * Minute > events[j].start) )
          => /\ Len(availableSlots) >= 1
             /\ availableSlots[1].start = g

-----------------------------------------------------------------------------
(* C21..C30 *)

Range(seq) == {seq[i] : i \in 1..Len(seq)}

Least(a, b) == IF a <= b THEN a ELSE b

Greatest(a, b) == IF a >= b THEN a ELSE b

\* busy intervals that could be added without changing the instants covered:
\* the hull and the common part of two busy intervals that overlap
CoveredAgain(evs) ==
    { Slot(Least(a.start, b.start), Greatest(a.end, b.end)) :
        <<a, b>> \in {q \in Range(evs) \X Range(evs) : Overlaps(q[1], q[2])} }
    \cup
    { Slot(Greatest(a.start, b.start), Least(a.end, b.end)) :
        <<a, b>> \in {q \in Range(evs) \X Range(evs) : Overlaps(q[1], q[2])} }

\* C21: whether a candidate is returned depends on the busy list only as a
\* set: a candidate inside the window is appended iff no member of the set
\* of busy intervals overlaps it, whatever the order and the multiplicity of
\* the list, and also when intervals covered by two overlapping busy
\* intervals are added to the set.
C21_BusySetOnly ==
    [][Iterated =>
        \A extra \in SUBSET CoveredAgain(events) :
            (availableSlots' # availableSlots)
              <=> /\ isWithinSchedulingWindow(currentDate,
                                              currentDate + durationMinutes * Minute)
                  /\ \A e \in Range(events) \cup extra :
                        ~Overlaps(Slot(currentDate,
                                       currentDate + durationMinutes * Minute), e)]_vars

\* a search over a busy list with a duplicate and two overlapping intervals
\* returned slots and rejected candidates
C21_Witness ==
    /\ pc = "returned"
    /\ Cardinality(Range(events)) < Len(events)
    /\ \E a \in Range(events), b \in Range(events) : a # b /\ Overlaps(a, b)
    /\ Len(availableSlots) > 0
    /\ slotsChecked > Len(availableSlots)

\* C22: an iteration of the search changes neither the range given by the
\* caller nor the busy intervals nor the calendar, and every slot already in
\* the result keeps its start and its end while the cursor moves on.
C22_ReadsOnly ==
    [][Iterated =>
         /\ startDate' = startDate
         /\ endDate' = endDate
         /\ events' = events
         /\ calendar' = calendar
         /\ Len(availableSlots') >= Len(availableSlots)
         /\ \A i \in 1..Len(availableSlots) : availableSlots'[i] = availableSlots[i]
         /\ \A i \in 1..Len(availableSlots') :
               availableSlots'[i].start <= currentDate
               /\ availableSlots'[i].start < currentDate' ]_vars

\* a result whose slots were pushed before a later fast-forward of the
\* cursor, with the range of the caller as it was given
C22_Witness ==
    /\ pc = "returned"
    /\ caller = "direct"
    /\ startDate \in StartDates
    /\ endDate \in EndDates
    /\ \E i \in SlotIndices :
         /\ i > 1
         /\ availableSlots[i].start - availableSlots[i - 1].start
                > 2 * StepMinutes * Minute
    /\ currentDate > availableSlots[Len(availableSlots)].start

\* C23: the bookings created by two scheduling requests that run
\* interleaved against the same calendar never overlap each other.
C23_NoDoubleBooking ==
    \A i \in 1..Len(booked) : \A j \in 1..Len(booked) :
        i < j => ~Overlaps(booked[i], booked[j])

\* C24: every slot collected lies inside the searched range:
\* rangeStart <= slot.start and slot.end <= rangeEnd.
C24_InsideRange ==
    \A i \in SlotIndices :
        /\ startDate <= availableSlots[i].start
        /\ availableSlots[i].end <= endDate

\* C25: when the task carries a deadline, the slot booked for it ends no
\* later than the deadline.
C25_DeadlineRespected ==
    (caller = "flow" /\ taskData.deadline # NoDate) =>
        \A i \in 1..Len(booked) : booked[i].end <= taskData.deadline

\* C26: the scheduling flow searches from max(now, preferredStartDate) to
\* max(searchStart + 7 days, deadline), an absent date not counting, so the
\* range starts at or after now and ends after it starts.
C26_RangeWellFormed ==
    (caller = "flow" /\ error # "Calendar not authenticated") =>
        /\ startDate = IF taskData.preferredStartDate = NoDate
                       THEN now
                       ELSE Greatest(now, taskData.preferredStartDate)
        /\ endDate = IF taskData.deadline = NoDate
                     THEN startDate + MinSearchDays * Day
                     ELSE Greatest(startDate + MinSearchDays * Day, taskData.deadline)
        /\ startDate >= now
        /\ startDate < endDate

\* the flow searched for a task whose deadline lies before its preferred
\* start, which lies after now
C26_Witness ==
    /\ caller = "flow"
    /\ pc = "returned"
    /\ taskData.preferredStartDate > now
    /\ taskData.deadline # NoDate
    /\ taskData.deadline < taskData.preferredStartDate
    /\ slotsChecked > 0

\* C27: a search over a range of at most 7 days is never cut short by the
\* cap: it returns with the cursor at or after rangeEnd and with fewer than
\* maxSlotsToCheck candidates examined, so that every grid position of the
\* range that passes the window test and the overlap test is in the result.
C27_WeekNotTruncated ==
    (pc = "returned" /\ endDate - startDate <= MinSearchDays * Day) =>
        /\ currentDate >= endDate
        /\ slotsChecked < maxSlotsToCheck
        /\ \A k \in 0..((endDate - InitialCursor(startDate)) \div (StepMinutes * Minute)) :
              LET g == InitialCursor(startDate) + k * StepMinutes * Minute
              IN  ( /\ g < endDate
                    /\ StartsInsideWindow(g)
                    /\ LocalHour(g + durationMinutes * Minute) <= schedulingWindowEnd
                    /\ ~hasConflict(g, g + durationMinutes * Minute, events) )
                  => Slot(g, g + durationMinutes * Minute) \in Range(availableSlots)

\* C28: when the calendar is not authenticated, createAndScheduleTask fails
\* with 'Calendar not authenticated' at once, and the request makes no
\* calendar call: it fetches no events, examines no candidate and books
\* nothing.
C28_AuthGate ==
    [][ /\ (pc = "idle" /\ caller' = "flow" /\ ~authed) =>
              /\ pc' = "failed"
              /\ error' = "Calendar not authenticated"
        /\ (caller' = "flow" /\ ~authed') =>
              /\ pc' \in {"failed", "responded"}
              /\ error' = "Calendar not authenticated"
              /\ events' = <<>>
              /\ slotsChecked' = 0
              /\ availableSlots' = <<>>
              /\ booked' = <<>>
              /\ calendar' = calendar ]_vars

\* a scheduling request made without credentials was answered with the
\* authentication failure, the calendar untouched
C28_Witness ==
    /\ ~authed
    /\ caller = "flow"
    /\ pc = "responded"
    /\ error = "Calendar not authenticated"
    /\ Len(calendar) > 0
    /\ booked = <<>>

\* C29: the chat history alternates user, assistant, user, assistant, ...
\* and each assistant entry directly follows the user message it answers.
C29_HistoryAlternates ==
    \A k \in 1..Len(chatHistory) :
        IF k % 2 = 1
        THEN chatHistory[k].role = "user"
        ELSE /\ chatHistory[k].role = "assistant"
             /\ chatHistory[k].content = chatHistory[k - 1].content

\* C30: findAvailablePort probes startPort, startPort + 1, ... in that
\* order, returns the first port whose probe was refused, which lies in
\* startPort .. startPort + maxAttempts - 1, and fails after exactly
\* maxAttempts probes when none of them was refused.
C30_PortSelection ==
    /\ Len(boot.probes) <= boot.maxAttempts
    /\ \A k \in 1..Len(boot.probes) : boot.probes[k].port = boot.startPort + k - 1
    /\ boot.pc = "returned" =>
         /\ Len(boot.probes) > 0
         /\ boot.port = boot.probes[Len(boot.probes)].port
         /\ boot.probes[Len(boot.probes)].outcome = "ECONNREFUSED"
         /\ \A k \in 1..(Len(boot.probes) - 1) :
               boot.probes[k].outcome # "ECONNREFUSED"
         /\ boot.port >= boot.startPort
         /\ boot.port <= boot.startPort + boot.maxAttempts - 1
    /\ boot.pc = "failed" =>
         /\ Len(boot.probes) = boot.maxAttempts
         /\ \A k \in 1..Len(boot.probes) : boot.probes[k].outcome # "ECONNREFUSED"

====
